---- MODULE Spec2Model ----
(***************************************************************************)
(* serde_resolve: the recursive string resolver over JSON, YAML and TOML   *)
(* tree values (src/src/json.rs, src/src/yaml.rs, src/src/toml.rs and the  *)
(* impl_resolve_recursive macro of src/src/lib.rs).                        *)
(*                                                                         *)
(* A tree value is a record tagged with its variant.  The three value      *)
(* types share the variant names String, Array (YAML Sequence), Object     *)
(* (YAML Mapping, TOML Table), Bool and Number (TOML Integer/Float); Null  *)
(* exists in JSON and YAML, Tagged in YAML only, Datetime in TOML only.    *)
(* A map is the sequence of its entries in iteration order, with pairwise  *)
(* distinct keys; keys are tree values (always a String in JSON and TOML). *)
(***************************************************************************)
EXTENDS Integers, Sequences, FiniteSets, Bags, TLC

\* ---------------------------------------------------------------- bounds
\* Largest number of nodes (keys not counted) of an input tree.
MaxNodes == 3
\* Longest chain of nested single-key mappings around a leaf string.
MaxChain == 3
\* Largest argument given to the builder step Config::max_depth.
MaxDepthArg == 3
\* Longest chain of builder steps applied to Config::new().
MaxSteps == 3

\* ------------------------------------------------------ program constants
DefaultMaxDepth == 32
\* usize::MAX.  The checker's integers stop at 2^31 - 1, which stands for it:
\* no depth of a bounded tree comes near either number.
UsizeMax == 2147483647

\* ------------------------------------------------------------ tree values
Strings == {"a", "b"}

String(s) == [kind |-> "String", s |-> s]
Null == [kind |-> "Null"]
Bool(b) == [kind |-> "Bool", b |-> b]
Number(n) == [kind |-> "Number", n |-> n]
Datetime(d) == [kind |-> "Datetime", dt |-> d]
Array(items) == [kind |-> "Array", items |-> items]
Object(entries) == [kind |-> "Object", entries |-> entries]
Tagged(tag, v) == [kind |-> "Tagged", tag |-> tag, value |-> v]

Entry(k, v) == [key |-> k, val |-> v]

Formats == {"json", "yaml", "toml"}

\* The variants of each value type (serde_json::Value, serde_yaml::Value,
\* toml::Value).
Variants(fmt) ==
    CASE fmt = "json" -> {"Null", "Bool", "Number", "String", "Array", "Object"}
      [] fmt = "yaml" -> {"Null", "Bool", "Number", "String", "Array", "Object", "Tagged"}
      [] fmt = "toml" -> {"String", "Number", "Bool", "Datetime", "Array", "Object"}

\* v is a value of type fmt: its variants exist in fmt, and the keys of its
\* maps are Strings unless fmt is YAML, whose keys are values themselves.
RECURSIVE IsValue(_, _)
IsValue(fmt, v) ==
    /\ v.kind \in Variants(fmt)
    /\ CASE v.kind = "Array" -> \A i \in 1..Len(v.items) : IsValue(fmt, v.items[i])
         [] v.kind = "Object" ->
                \A i \in 1..Len(v.entries) :
                    /\ IsValue(fmt, v.entries[i].val)
                    /\ IF fmt = "yaml" THEN IsValue(fmt, v.entries[i].key)
                       ELSE v.entries[i].key.kind = "String"
         [] v.kind = "Tagged" -> IsValue(fmt, v.value)
         [] OTHER -> TRUE

\* ------------------------------------------------------------ input trees
\* The scalar leaves the input trees of each type are built from.
Leaves(fmt) ==
    {String(s) : s \in Strings}
        \cup (CASE fmt = "json" -> {Null, Number(1)}
                [] fmt = "yaml" -> {Null, Bool(TRUE)}
                [] fmt = "toml" -> {Datetime("d1"), Number(1)})

\* The keys of the input maps: Strings.
Keys == {String(s) : s \in Strings}

\* Sequences of k pairwise distinct keys.
RECURSIVE KeySeqs(_)
KeySeqs(k) ==
    IF k = 0 THEN {<<>>}
    ELSE {Append(ks, key) : ks \in KeySeqs(k - 1), key \in Keys}
            \ {Append(ks, ks[i]) : ks \in KeySeqs(k - 1), i \in 1..(k - 1)}

Zip(ks, vs) == [i \in 1..Len(ks) |-> Entry(ks[i], vs[i])]

\* Forests(T, k, n): the sequences of k trees with n nodes in all, T[m] being
\* the set of trees with m nodes.
RECURSIVE Forests(_, _, _)
Forests(T, k, n) ==
    IF k = 0 THEN (IF n = 0 THEN {<<>>} ELSE {})
    ELSE UNION {{<<t>> \o f : t \in T[m], f \in Forests(T, k - 1, n - m)}
                    : m \in 1..(n - k + 1)}

\* The trees with n nodes, given those with fewer.
TreesOfSize(fmt, T, n) ==
    (IF n = 1 THEN Leaves(fmt) ELSE {})
        \cup UNION {{Array(f) : f \in Forests(T, k, n - 1)} : k \in 0..(n - 1)}
        \cup UNION {{Object(Zip(ks, f)) : ks \in KeySeqs(k), f \in Forests(T, k, n - 1)}
                        : k \in 0..(n - 1)}
        \cup (IF fmt = "yaml" /\ n > 1 THEN {Tagged("!mytag", t) : t \in T[n - 1]} ELSE {})

\* <<T[1], ..., T[n]>>
RECURSIVE TreeTable(_, _)
TreeTable(fmt, n) ==
    IF n = 0 THEN <<>>
    ELSE LET T == TreeTable(fmt, n - 1) IN Append(T, TreesOfSize(fmt, T, n))

\* Every tree of type fmt with at most MaxNodes nodes.
Trees(fmt) == LET T == TreeTable(fmt, MaxNodes) IN UNION {T[n] : n \in 1..MaxNodes}

\* A chain of n nested single-key mappings around a leaf.
RECURSIVE Chain(_, _)
Chain(n, leaf) ==
    IF n = 0 THEN leaf ELSE Object(<<Entry(String("a"), Chain(n - 1, leaf))>>)

Chains == {Chain(n, String(s)) : n \in 1..MaxChain, s \in Strings}

\* YAML mappings whose key is not a String: a scalar, a sequence, a tagged
\* value, a mapping.
YamlKeys ==
    {Bool(TRUE), Array(<<String("a")>>), Tagged("!mytag", String("b")),
     Object(<<Entry(String("a"), String("b"))>>)}

YamlKeyed ==
    LET M == {Object(<<Entry(k, v)>>) : k \in YamlKeys, v \in {String("a"), Null}}
    IN  M \cup {Array(<<m>>) : m \in M}

JsonInputs == Trees("json") \cup Chains
YamlInputs == Trees("yaml") \cup Chains \cup YamlKeyed
TomlInputs == Trees("toml") \cup Chains

\* ---------------------------------------------------------------- Resolved
Changed(s) == [tag |-> "Changed", s |-> s]
Unchanged == [tag |-> "Unchanged"]
Failed(e) == [tag |-> "Err", e |-> e]

\* A resolver is a function of its input string.  Its error value names
\* the string it failed on, so that two failures are told apart.
ErrorOf(s) == <<"MyError", s>>
Outcomes(s) == {Unchanged, Failed(ErrorOf(s))} \cup {Changed(t) : t \in Strings}
Resolvers == {f \in [Strings -> UNION {Outcomes(s) : s \in Strings}] :
                \A s \in Strings : f[s] \in Outcomes(s)}

\* ------------------------------------------------------------------ Error
\* (mutant: the limit reported is one more than the configured one)
DepthExceededOffByOne(limit) == [kind |-> "DepthExceeded", limit |-> limit + 1]

DepthExceeded(limit) == [kind |-> "DepthExceeded", limit |-> limit]
ResolverError(e) == [kind |-> "Resolver", e |-> e]

\* ------------------------------------------------------------------ state
VARIABLES
    value,      \* the tree handed to resolve
    resolver,   \* the caller's resolver
    config,     \* the Config under construction, then borrowed by resolve
    pc,         \* "build" until a resolve operation has been called
    walker,     \* the module whose resolve was called
    result,     \* what the call returned
    steps,      \* the builder steps the Build actions applied, in order
    stack,      \* the activations of resolve_recursive of a stepwise traversal
    issued,     \* the strings a stepwise traversal has passed to the resolver
    entered     \* the positions at which resolve_recursive has been entered

vars == <<value, resolver, config, pc, walker, result, steps, stack, issued, entered>>

\* What a call of the walker returns: Ok(value) or Err(error), with the
\* inputs of the resolver calls made so far, in the order they were made.
Ok(v, calls) == [ok |-> TRUE, value |-> v, calls |-> calls]
Err(e, calls) == [ok |-> FALSE, error |-> e, calls |-> calls]

\* (mutant: the answer Changed is dropped and the original string kept)
resolve_str_keep(s, rsv, calls) ==
    LET r == rsv[s]
        made == Append(calls, s)
    IN  CASE r.tag = "Err" -> Err(ResolverError(r.e), made)
          [] OTHER -> Ok(s, made)

\* (mutant: a failure of the resolver is swallowed and the string kept)
resolve_str_swallow(s, rsv, calls) ==
    LET r == rsv[s]
        made == Append(calls, s)
    IN  CASE r.tag = "Changed" -> Ok(r.s, made)
          [] OTHER -> Ok(s, made)

\* resolver.resolve(&s).await.map_err(Error::resolver)? followed by the match
\* on Resolved: the string that replaces s, or the resolver's error.
resolve_str(s, rsv, calls) ==
    LET r == rsv[s]
        made == Append(calls, s)
    IN  CASE r.tag = "Err" -> Err(ResolverError(r.e), made)
          [] r.tag = "Changed" -> Ok(r.s, made)
          [] r.tag = "Unchanged" -> Ok(s, made)

\* Map::contains_key and Map::get
HasEntry(entries, k) == \E i \in 1..Len(entries) : entries[i].key = k
EntryOf(entries, k) == entries[CHOOSE i \in 1..Len(entries) : entries[i].key = k]

\* (mutant: an entry is added whether or not its key is there already)
insert_duplicate(entries, k, v) == Append(entries, Entry(k, v))

\* (mutant: a new entry is put in front of the entries there are)
insert_front(entries, k, v) ==
    IF \E i \in 1..Len(entries) : entries[i].key = k
    THEN [i \in 1..Len(entries) |->
            IF entries[i].key = k THEN Entry(entries[i].key, v) ELSE entries[i]]
    ELSE <<Entry(k, v)>> \o entries

\* Map::insert: the value of an equal key is replaced where it stands, a new
\* key is added after the entries there are.
insert(entries, k, v) ==
    IF \E i \in 1..Len(entries) : entries[i].key = k
    THEN [i \in 1..Len(entries) |->
            IF entries[i].key = k THEN Entry(entries[i].key, v) ELSE entries[i]]
    ELSE Append(entries, Entry(k, v))

\* (mutant: the element is put in front)
push_front(vec, x) == <<x>> \o vec

\* Vec::push
push(vec, x) == Append(vec, x)

\* (mutant: keys are always resolved)
resolve_keys_always(cfg) == TRUE

\* (mutant: keys are never resolved)
resolve_keys_never(cfg) == FALSE

\* if config.resolve_keys: the gate in front of the key resolution.
resolve_keys_enabled(cfg) == cfg.resolve_keys

\* ------------------------------------------------------------ json walker
\* if depth > config.max_depth
json_depth_exceeded(depth, cfg) == depth > cfg.max_depth

RECURSIVE json_resolve_recursive(_, _, _, _, _)
RECURSIVE json_array_loop(_, _, _, _, _, _, _)
RECURSIVE json_object_loop(_, _, _, _, _, _, _)

\* (mutant: the depth is checked after the dispatch, where a string is
\* about to be resolved, and nowhere else)
json_resolve_recursive_late_check(v, rsv, cfg, depth, calls) ==
    CASE v.kind = "String" ->
            IF json_depth_exceeded(depth, cfg)
            THEN Err(DepthExceeded(cfg.max_depth), calls)
            ELSE LET r == resolve_str(v.s, rsv, calls)
                 IN  IF r.ok THEN Ok(String(r.value), r.calls) ELSE r
      [] v.kind = "Array" -> json_array_loop(v.items, 1, <<>>, rsv, cfg, depth, calls)
      [] v.kind = "Object" -> json_object_loop(v.entries, 1, <<>>, rsv, cfg, depth, calls)
      [] v.kind \in {"Null", "Bool", "Number"} -> Ok(v, calls)

json_resolve_recursive(v, rsv, cfg, depth, calls) ==
    IF json_depth_exceeded(depth, cfg) THEN Err(DepthExceeded(cfg.max_depth), calls)
    ELSE CASE v.kind = "String" ->
                LET r == resolve_str(v.s, rsv, calls)
                IN  IF r.ok THEN Ok(String(r.value), r.calls) ELSE r
           [] v.kind = "Array" -> json_array_loop(v.items, 1, <<>>, rsv, cfg, depth, calls)
           [] v.kind = "Object" -> json_object_loop(v.entries, 1, <<>>, rsv, cfg, depth, calls)
           [] v.kind \in {"Null", "Bool", "Number"} -> Ok(v, calls)

\* (mutant: the elements are all resolved, as by a join of their futures,
\* and the first error is returned afterwards)
json_array_loop_join(arr, i, acc, rsv, cfg, depth, calls) ==
    IF i > Len(arr) THEN Ok(Array(acc), calls)
    ELSE LET r == json_resolve_recursive(arr[i], rsv, cfg, depth + 1, calls)
             rest == json_array_loop(arr, i + 1, IF r.ok THEN push(acc, r.value) ELSE acc,
                                     rsv, cfg, depth, r.calls)
         IN  IF r.ok THEN rest ELSE Err(r.error, rest.calls)

\* for item in arr { result.push(resolve_recursive(item, .., depth + 1).await?) }
json_array_loop(arr, i, acc, rsv, cfg, depth, calls) ==
    IF i > Len(arr) THEN Ok(Array(acc), calls)
    ELSE LET r == json_resolve_recursive(arr[i], rsv, cfg, depth + 1, calls)
         IN  IF r.ok
             THEN json_array_loop(arr, i + 1, push(acc, r.value), rsv, cfg, depth, r.calls)
             ELSE r

\* for (key, val) in map { .. result.insert(resolved_key, resolved_val) }
json_object_loop(map, i, acc, rsv, cfg, depth, calls) ==
    IF i > Len(map) THEN Ok(Object(acc), calls)
    ELSE LET key == map[i].key
             val == map[i].val
             resolved_key ==
                IF resolve_keys_enabled(cfg)
                THEN LET r == resolve_str(key.s, rsv, calls)
                     IN  IF r.ok THEN Ok(String(r.value), r.calls) ELSE r
                ELSE Ok(key, calls)
         IN  IF ~resolved_key.ok THEN resolved_key
             ELSE LET resolved_val ==
                        json_resolve_recursive(val, rsv, cfg, depth + 1, resolved_key.calls)
                  IN  IF resolved_val.ok
                      THEN json_object_loop(map, i + 1,
                                insert(acc, resolved_key.value, resolved_val.value),
                                rsv, cfg, depth, resolved_val.calls)
                      ELSE resolved_val

\* json::resolve
json_resolve(v, rsv, cfg) == json_resolve_recursive(v, rsv, cfg, 0, <<>>)

\* ------------------------------------------- impl_resolve_recursive! walkers
\* The macro's resolve_recursive, instantiated for fmt = "yaml" and "toml".
\* (mutant: the comparison of the JSON walker)
macro_depth_exceeded_strict(depth, cfg) == depth > cfg.max_depth

\* if $depth >= $config.max_depth
macro_depth_exceeded(depth, cfg) == depth >= cfg.max_depth

RECURSIVE impl_resolve_recursive(_, _, _, _, _, _)
RECURSIVE impl_array_loop(_, _, _, _, _, _, _, _)
RECURSIVE impl_object_loop(_, _, _, _, _, _, _, _)

\* (mutant: YAML passes a string key to the resolver as TOML does and keeps
\* any other key)
resolve_key_logic_direct(fmt, key, rsv, cfg, depth, calls) ==
    IF key.kind = "String"
    THEN LET r == resolve_str(key.s, rsv, calls)
         IN  IF r.ok THEN Ok(String(r.value), r.calls) ELSE r
    ELSE Ok(key, calls)

\* $resolve_key_logic: YAML resolves the key as a value of its own, one
\* level down; TOML passes the key string to the resolver.
resolve_key_logic(fmt, key, rsv, cfg, depth, calls) ==
    IF fmt = "yaml"
    THEN impl_resolve_recursive(fmt, key, rsv, cfg, depth + 1, calls)
    ELSE LET r == resolve_str(key.s, rsv, calls)
         IN  IF r.ok THEN Ok(String(r.value), r.calls) ELSE r

\* (mutant: a scalar that is no string is rebuilt as a default value)
other_arms_default(fmt, v, rsv, cfg, depth, calls) ==
    IF v.kind = "Tagged"
    THEN LET resolved_inner ==
                impl_resolve_recursive(fmt, v.value, rsv, cfg, depth + 1, calls)
         IN  IF resolved_inner.ok
             THEN Ok(Tagged(v.tag, resolved_inner.value), resolved_inner.calls)
             ELSE resolved_inner
    ELSE Ok(Bool(FALSE), calls)

\* (mutant: the inner value of a tagged value is resolved at the depth of
\* the tagged value)
other_arms_same_depth(fmt, v, rsv, cfg, depth, calls) ==
    IF v.kind = "Tagged"
    THEN LET resolved_inner ==
                impl_resolve_recursive(fmt, v.value, rsv, cfg, depth, calls)
         IN  IF resolved_inner.ok
             THEN Ok(Tagged(v.tag, resolved_inner.value), resolved_inner.calls)
             ELSE resolved_inner
    ELSE Ok(v, calls)

\* $other_arms
other_arms(fmt, v, rsv, cfg, depth, calls) ==
    IF fmt = "yaml"
    THEN CASE v.kind = "Tagged" ->
                LET resolved_inner ==
                        impl_resolve_recursive(fmt, v.value, rsv, cfg, depth + 1, calls)
                IN  IF resolved_inner.ok
                    THEN Ok(Tagged(v.tag, resolved_inner.value), resolved_inner.calls)
                    ELSE resolved_inner
           [] v.kind \in {"Null", "Bool", "Number"} -> Ok(v, calls)
    ELSE CASE v.kind = "Datetime" -> Ok(Datetime(v.dt), calls)
           [] v.kind \in {"Number", "Bool"} -> Ok(v, calls)

impl_resolve_recursive(fmt, v, rsv, cfg, depth, calls) ==
    IF macro_depth_exceeded(depth, cfg) THEN Err(DepthExceeded(cfg.max_depth), calls)
    ELSE CASE v.kind = "String" ->
                LET r == resolve_str(v.s, rsv, calls)
                IN  IF r.ok THEN Ok(String(r.value), r.calls) ELSE r
           [] v.kind = "Array" ->
                impl_array_loop(fmt, v.items, 1, <<>>, rsv, cfg, depth, calls)
           [] v.kind = "Object" ->
                impl_object_loop(fmt, v.entries, 1, <<>>, rsv, cfg, depth, calls)
           [] OTHER -> other_arms(fmt, v, rsv, cfg, depth, calls)

\* for (_i, item) in arr.into_iter().enumerate() { .. result.push(res) }
impl_array_loop(fmt, arr, i, acc, rsv, cfg, depth, calls) ==
    IF i > Len(arr) THEN Ok(Array(acc), calls)
    ELSE LET res == impl_resolve_recursive(fmt, arr[i], rsv, cfg, depth + 1, calls)
         IN  IF res.ok
             THEN impl_array_loop(fmt, arr, i + 1, push(acc, res.value),
                                  rsv, cfg, depth, res.calls)
             ELSE res

\* (mutant: the value of an entry is resolved before its key)
impl_object_loop_value_first(fmt, map, i, acc, rsv, cfg, depth, calls) ==
    IF i > Len(map) THEN Ok(Object(acc), calls)
    ELSE LET key == map[i].key
             val == map[i].val
             resolved_val == impl_resolve_recursive(fmt, val, rsv, cfg, depth + 1, calls)
         IN  IF ~resolved_val.ok THEN resolved_val
             ELSE LET resolved_key ==
                        IF resolve_keys_enabled(cfg)
                        THEN resolve_key_logic(fmt, key, rsv, cfg, depth, resolved_val.calls)
                        ELSE Ok(key, resolved_val.calls)
                  IN  IF resolved_key.ok
                      THEN impl_object_loop(fmt, map, i + 1,
                                insert(acc, resolved_key.value, resolved_val.value),
                                rsv, cfg, depth, resolved_key.calls)
                      ELSE resolved_key

\* for ($key, val) in map { .. result.insert(resolved_key, resolved_val) }
impl_object_loop(fmt, map, i, acc, rsv, cfg, depth, calls) ==
    IF i > Len(map) THEN Ok(Object(acc), calls)
    ELSE LET key == map[i].key
             val == map[i].val
             resolved_key ==
                IF resolve_keys_enabled(cfg)
                THEN resolve_key_logic(fmt, key, rsv, cfg, depth, calls)
                ELSE Ok(key, calls)
         IN  IF ~resolved_key.ok THEN resolved_key
             ELSE LET resolved_val ==
                        impl_resolve_recursive(fmt, val, rsv, cfg, depth + 1,
                                               resolved_key.calls)
                  IN  IF resolved_val.ok
                      THEN impl_object_loop(fmt, map, i + 1,
                                insert(acc, resolved_key.value, resolved_val.value),
                                rsv, cfg, depth, resolved_val.calls)
                      ELSE resolved_val

\* yaml::resolve
yaml_resolve(v, rsv, cfg) == impl_resolve_recursive("yaml", v, rsv, cfg, 0, <<>>)

\* toml::resolve
toml_resolve(v, rsv, cfg) == impl_resolve_recursive("toml", v, rsv, cfg, 0, <<>>)

\* ---------------------------------------------------------------- actions
NoResult == <<>>
NoValue == <<>>
NoResolver == <<>>

\* impl Default for Config
Config_default == [max_depth |-> DefaultMaxDepth, resolve_keys |-> FALSE]

\* (mutant: the step starts again from the default Config)
Config_max_depth_fresh(cfg, depth) == [Config_default EXCEPT !.max_depth = depth]

\* Config::max_depth(mut self, depth)
Config_max_depth(cfg, depth) == [cfg EXCEPT !.max_depth = depth]

\* Config::resolve_keys(mut self, resolve)
Config_resolve_keys(cfg, resolve) == [cfg EXCEPT !.resolve_keys = resolve]

\* Config::unlimited_depth(mut self)
Config_unlimited_depth(cfg) == [cfg EXCEPT !.max_depth = UsizeMax]

\* Config::default(); no resolve operation has been called yet.
Init ==
    /\ config = Config_default
    /\ pc = "build"
    /\ value = NoValue
    /\ resolver = NoResolver
    /\ walker = "none"
    /\ result = NoResult
    /\ steps = <<>>
    /\ stack = <<>>
    /\ issued = <<>>
    /\ entered = <<>>

\* Config::max_depth(depth)
ConfigMaxDepth ==
    /\ pc = "build"
    /\ \E depth \in 0..MaxDepthArg : config' = Config_max_depth(config, depth)
    /\ UNCHANGED <<value, resolver, pc, walker, result, steps, stack, issued, entered>>

\* Config::resolve_keys(resolve)
ConfigResolveKeys ==
    /\ pc = "build"
    /\ \E resolve \in BOOLEAN : config' = Config_resolve_keys(config, resolve)
    /\ UNCHANGED <<value, resolver, pc, walker, result, steps, stack, issued, entered>>

\* Config::unlimited_depth()
ConfigUnlimitedDepth ==
    /\ pc = "build"
    /\ config' = Config_unlimited_depth(config)
    /\ UNCHANGED <<value, resolver, pc, walker, result, steps, stack, issued, entered>>

\* json::resolve(value, &resolver, &config)
JsonResolve ==
    /\ pc = "build"
    /\ \E v \in JsonInputs, r \in Resolvers :
        /\ value' = v
        /\ resolver' = r
        /\ result' = json_resolve(v, r, config)
    /\ walker' = "json"
    /\ pc' = "done"
    /\ UNCHANGED <<config, steps, stack, issued, entered>>

\* yaml::resolve(value, &resolver, &config)
YamlResolve ==
    /\ pc = "build"
    /\ \E v \in YamlInputs, r \in Resolvers :
        /\ value' = v
        /\ resolver' = r
        /\ result' = yaml_resolve(v, r, config)
    /\ walker' = "yaml"
    /\ pc' = "done"
    /\ UNCHANGED <<config, steps, stack, issued, entered>>

\* toml::resolve(value, &resolver, &config)
TomlResolve ==
    /\ pc = "build"
    /\ \E v \in TomlInputs, r \in Resolvers :
        /\ value' = v
        /\ resolver' = r
        /\ result' = toml_resolve(v, r, config)
    /\ walker' = "toml"
    /\ pc' = "done"
    /\ UNCHANGED <<config, steps, stack, issued, entered>>

Next ==
    \/ ConfigMaxDepth
    \/ ConfigResolveKeys
    \/ ConfigUnlimitedDepth
    \/ JsonResolve
    \/ YamlResolve
    \/ TomlResolve

Spec == Init /\ [][Next]_vars

\* ------------------------------------------------------ the Config builder
\* Chains of builder steps on Config::new(), each step recorded:
\* Config::new().max_depth(10).resolve_keys(true) ...
Step(op, arg) == [op |-> op, arg |-> arg]

\* .max_depth(depth)
BuildMaxDepth ==
    /\ pc = "build"
    /\ Len(steps) < MaxSteps
    /\ \E depth \in 0..MaxDepthArg :
        /\ config' = Config_max_depth(config, depth)
        /\ steps' = Append(steps, Step("max_depth", depth))
    /\ UNCHANGED <<value, resolver, pc, walker, result, stack, issued, entered>>

\* .resolve_keys(resolve)
BuildResolveKeys ==
    /\ pc = "build"
    /\ Len(steps) < MaxSteps
    /\ \E resolve \in BOOLEAN :
        /\ config' = Config_resolve_keys(config, resolve)
        /\ steps' = Append(steps, Step("resolve_keys", resolve))
    /\ UNCHANGED <<value, resolver, pc, walker, result, stack, issued, entered>>

\* .unlimited_depth()
BuildUnlimitedDepth ==
    /\ pc = "build"
    /\ Len(steps) < MaxSteps
    /\ config' = Config_unlimited_depth(config)
    /\ steps' = Append(steps, Step("unlimited_depth", "none"))
    /\ UNCHANGED <<value, resolver, pc, walker, result, stack, issued, entered>>

NextConfig ==
    \/ BuildMaxDepth
    \/ BuildResolveKeys
    \/ BuildUnlimitedDepth

SpecConfig == Init /\ [][NextConfig]_vars

\* --------------------------------------------------------- resolve_struct
\* The values handed to resolve_struct<T>: a TestStruct {a: String, b: i32}
\* (the struct of the tests, its fields named by strings of the model), a
\* String, and a map keyed by tuples, which serde_json cannot serialize.
TestStruct(a, b) == [type |-> "TestStruct", a |-> a, b |-> b]
Text(s) == [type |-> "String", s |-> s]
TupleKeyMap == [type |-> "TupleKeyMap"]

StructInputs ==
    {TestStruct(a, b) : a \in Strings, b \in {1, 2}}
        \cup {Text(s) : s \in Strings} \cup {TupleKeyMap}

\* serde_json::to_value(value)
to_value(v) ==
    CASE v.type = "TestStruct" ->
            [ok |-> TRUE,
             value |-> Object(<<Entry(String("a"), String(v.a)),
                                Entry(String("b"), Number(v.b))>>)]
      [] v.type = "String" -> [ok |-> TRUE, value |-> String(v.s)]
      [] v.type = "TupleKeyMap" -> [ok |-> FALSE, error |-> "key must be a string"]

\* serde_json::from_value::<T>(resolved): T's fields are looked up by name
\* and must have T's types.
from_value(type, tree) ==
    CASE type = "TestStruct" ->
            IF tree.kind # "Object" THEN [ok |-> FALSE, error |-> "invalid type"]
            ELSE IF ~HasEntry(tree.entries, String("a"))
                 THEN [ok |-> FALSE, error |-> "missing field a"]
            ELSE IF ~HasEntry(tree.entries, String("b"))
                 THEN [ok |-> FALSE, error |-> "missing field b"]
            ELSE LET a == EntryOf(tree.entries, String("a")).val
                     b == EntryOf(tree.entries, String("b")).val
                 IN  IF a.kind = "String" /\ b.kind = "Number"
                     THEN [ok |-> TRUE, value |-> TestStruct(a.s, b.n)]
                     ELSE [ok |-> FALSE, error |-> "invalid type"]
      [] type = "String" ->
            IF tree.kind = "String" THEN [ok |-> TRUE, value |-> Text(tree.s)]
            ELSE [ok |-> FALSE, error |-> "invalid type"]
      [] type = "TupleKeyMap" -> [ok |-> FALSE, error |-> "invalid type"]

\* StructResolveError
Serialize(e) == [kind |-> "Serialize", e |-> e]
Resolve(err) == [kind |-> "Resolve", err |-> err]
Deserialize(e) == [kind |-> "Deserialize", e |-> e]

\* What resolve_struct returns, with the stages it ran and the resolver
\* calls it made.
StructOk(v, stages, calls) == [ok |-> TRUE, value |-> v, stages |-> stages, calls |-> calls]
StructErr(e, stages, calls) == [ok |-> FALSE, error |-> e, stages |-> stages, calls |-> calls]

\* (mutant: a failure of from_value is reported as a Serialize error, the
\* two holding the same serde_json::Error)
resolve_struct_mislabelled(v, rsv, cfg) ==
    LET json == to_value(v)
    IN  IF ~json.ok THEN StructErr(Serialize(json.error), <<"to_value">>, <<>>)
        ELSE LET resolved == json_resolve(json.value, rsv, cfg)
             IN  IF ~resolved.ok
                 THEN StructErr(Resolve(resolved.error), <<"to_value", "resolve">>,
                                resolved.calls)
                 ELSE LET out == from_value(v.type, resolved.value)
                          ran == <<"to_value", "resolve", "from_value">>
                      IN  IF out.ok THEN StructOk(out.value, ran, resolved.calls)
                          ELSE StructErr(Serialize(out.error), ran, resolved.calls)

\* resolve_struct(value, resolver, config)
resolve_struct(v, rsv, cfg) ==
    LET json == to_value(v)
    IN  IF ~json.ok THEN StructErr(Serialize(json.error), <<"to_value">>, <<>>)
        ELSE LET resolved == json_resolve(json.value, rsv, cfg)
             IN  IF ~resolved.ok
                 THEN StructErr(Resolve(resolved.error), <<"to_value", "resolve">>,
                                resolved.calls)
                 ELSE LET out == from_value(v.type, resolved.value)
                          ran == <<"to_value", "resolve", "from_value">>
                      IN  IF out.ok THEN StructOk(out.value, ran, resolved.calls)
                          ELSE StructErr(Deserialize(out.error), ran, resolved.calls)

\* resolve_struct(value, &resolver, &config)
ResolveStruct ==
    /\ pc = "build"
    /\ \E v \in StructInputs, r \in Resolvers :
        /\ value' = v
        /\ resolver' = r
        /\ result' = resolve_struct(v, r, config)
    /\ walker' = "struct"
    /\ pc' = "done"
    /\ UNCHANGED <<config, steps, stack, issued, entered>>

NextStruct ==
    \/ ConfigMaxDepth
    \/ ConfigResolveKeys
    \/ ConfigUnlimitedDepth
    \/ ResolveStruct

SpecStruct == Init /\ [][NextStruct]_vars

\* ------------------------------------------- the traversal, step by step
\* resolve_recursive as the executor runs it: a stack of activations, one
\* per pending call (each is a boxed future awaited by its caller), and one
\* step per entry into resolve_recursive, per turn of a for loop and per
\* result handed back to a loop.
WalkInputs(fmt) ==
    CASE fmt = "json" -> JsonInputs
      [] fmt = "yaml" -> YamlInputs
      [] fmt = "toml" -> TomlInputs

\* Where an activation is in the tree (not program state: it tells the
\* entries into resolve_recursive apart).
ItemPos(i) == [seg |-> "item", i |-> i]
KeyPos(i) == [seg |-> "key", i |-> i]
ValPos(i) == [seg |-> "val", i |-> i]
InnerPos == [seg |-> "inner", i |-> 0]

\* The activation resolve_recursive(value, resolver, config, depth), not
\* yet entered.  Once in a loop: i is the turn of the loop, acc the
\* container built so far, part and key the progress within a turn of the
\* mapping loop, ret the result a callee has just handed back.
Frame(v, depth, pos) ==
    [node |-> v, depth |-> depth, pos |-> pos, stage |-> "enter",
     i |-> 1, acc |-> <<>>, part |-> "key", key |-> Null, ret |-> <<>>]

Returned(v) == [ok |-> TRUE, value |-> v]
Raised(e) == [ok |-> FALSE, error |-> e]

\* if depth > config.max_depth (json.rs); if $depth >= $config.max_depth
\* (the macro)
walk_depth_exceeded(fmt, depth, cfg) ==
    IF fmt = "json" THEN json_depth_exceeded(depth, cfg)
    ELSE macro_depth_exceeded(depth, cfg)

\* (mutant: the for loop does not move on to the next element)
next_turn_stuck(i) == i

\* for item in arr / for (key, val) in map: the iterator moves on by one
\* element.
next_turn(i) == i + 1

\* The activation on top of the stack returns res to its caller: the
\* caller below it on the stack, or the caller of resolve.
Deliver(res, made) ==
    LET below == SubSeq(stack, 1, Len(stack) - 1)
    IN  IF below = <<>>
        THEN /\ stack' = <<>>
             /\ result' = IF res.ok THEN Ok(res.value, made) ELSE Err(res.error, made)
             /\ pc' = "done"
        ELSE /\ stack' = [below EXCEPT ![Len(below)].ret = <<res>>]
             /\ UNCHANGED <<result, pc>>

\* The activation on top of the stack goes on with frame f.
Continue(f) ==
    /\ stack' = [stack EXCEPT ![Len(stack)] = f]
    /\ UNCHANGED <<result, pc>>

\* The activation on top of the stack calls resolve_recursive(v, .., depth + 1).
Call(v, pos) ==
    LET top == stack[Len(stack)]
    IN  /\ stack' = Append(stack, Frame(v, top.depth + 1, Append(top.pos, pos)))
        /\ UNCHANGED <<result, pc>>

\* json::resolve, yaml::resolve, toml::resolve: resolve_recursive(value,
\* resolver, config, 0) is called.
WalkBegin ==
    /\ pc = "build"
    /\ \E fmt \in Formats :
        /\ walker' = fmt
        /\ \E v \in WalkInputs(fmt), r \in Resolvers :
            /\ value' = v
            /\ resolver' = r
            /\ stack' = <<Frame(v, 0, <<>>)>>
    /\ pc' = "walk"
    /\ UNCHANGED <<config, result, steps, issued, entered>>

\* The body of resolve_recursive up to its first await or return: the depth
\* check, then the match on the value.
WalkEnter ==
    /\ pc = "walk"
    /\ stack # <<>>
    /\ LET top == stack[Len(stack)]
           v == top.node
       IN  /\ top.stage = "enter"
           /\ entered' = Append(entered, top.pos)
           /\ IF walk_depth_exceeded(walker, top.depth, config)
              THEN /\ issued' = issued
                   /\ Deliver(Raised(DepthExceeded(config.max_depth)), issued)
              ELSE CASE v.kind = "String" ->
                            LET r == resolve_str(v.s, resolver, issued)
                            IN  /\ issued' = r.calls
                                /\ Deliver(IF r.ok THEN Returned(String(r.value))
                                                   ELSE Raised(r.error), r.calls)
                     [] v.kind \in {"Array", "Object", "Tagged"} ->
                            /\ issued' = issued
                            /\ Continue([top EXCEPT !.stage = "loop"])
                     [] v.kind = "Datetime" ->
                            /\ issued' = issued
                            /\ Deliver(Returned(Datetime(v.dt)), issued)
                     [] OTHER ->
                            /\ issued' = issued
                            /\ Deliver(Returned(v), issued)
    /\ UNCHANGED <<value, resolver, config, walker, steps>>

\* A turn of a for loop up to its next await, or the end of the loop; for
\* a tagged value, the one call on its inner value.
WalkNext ==
    /\ pc = "walk"
    /\ stack # <<>>
    /\ LET top == stack[Len(stack)]
           v == top.node
       IN  /\ top.stage = "loop"
           /\ top.ret = <<>>
           /\ CASE v.kind = "Array" ->
                    /\ issued' = issued
                    /\ IF top.i > Len(v.items)
                       THEN Deliver(Returned(Array(top.acc)), issued)
                       ELSE Call(v.items[top.i], ItemPos(top.i))
                [] v.kind = "Tagged" ->
                    /\ issued' = issued
                    /\ Call(v.value, InnerPos)
                [] v.kind = "Object" ->
                    IF top.i > Len(v.entries)
                    THEN /\ issued' = issued
                         /\ Deliver(Returned(Object(top.acc)), issued)
                    ELSE LET key == v.entries[top.i].key
                             val == v.entries[top.i].val
                         IN  IF top.part = "val"
                             THEN /\ issued' = issued
                                  /\ Call(val, ValPos(top.i))
                             ELSE IF ~resolve_keys_enabled(config)
                             THEN /\ issued' = issued
                                  /\ Continue([top EXCEPT !.key = key, !.part = "val"])
                             ELSE IF walker = "yaml"
                             THEN /\ issued' = issued
                                  /\ Call(key, KeyPos(top.i))
                             ELSE LET r == resolve_str(key.s, resolver, issued)
                                  IN  /\ issued' = r.calls
                                      /\ IF r.ok
                                         THEN Continue([top EXCEPT !.key = String(r.value),
                                                                   !.part = "val"])
                                         ELSE Deliver(Raised(r.error), r.calls)
    /\ UNCHANGED <<value, resolver, config, walker, steps, entered>>

\* .await? on a call of resolve_recursive: an error is returned at once, a
\* value goes into the container being built (result.push, result.insert,
\* Value::Tagged) or becomes the resolved key.
WalkResume ==
    /\ pc = "walk"
    /\ stack # <<>>
    /\ LET top == stack[Len(stack)]
           v == top.node
       IN  /\ top.stage = "loop"
           /\ top.ret # <<>>
           /\ LET res == top.ret[1]
              IN  IF ~res.ok THEN Deliver(res, issued)
                  ELSE CASE v.kind = "Array" ->
                                Continue([top EXCEPT !.acc = push(top.acc, res.value),
                                                     !.i = next_turn(top.i),
                                                     !.ret = <<>>])
                         [] v.kind = "Tagged" ->
                                Deliver(Returned(Tagged(v.tag, res.value)), issued)
                         [] v.kind = "Object" ->
                                IF top.part = "key"
                                THEN Continue([top EXCEPT !.key = res.value,
                                                          !.part = "val",
                                                          !.ret = <<>>])
                                ELSE Continue([top EXCEPT
                                        !.acc = insert(top.acc, top.key, res.value),
                                        !.i = next_turn(top.i),
                                        !.part = "key",
                                        !.ret = <<>>])
    /\ UNCHANGED <<value, resolver, config, walker, steps, issued, entered>>

WalkStep == WalkEnter \/ WalkNext \/ WalkResume

NextWalk ==
    \/ ConfigMaxDepth
    \/ ConfigResolveKeys
    \/ ConfigUnlimitedDepth
    \/ WalkBegin
    \/ WalkEnter
    \/ WalkNext
    \/ WalkResume

\* The resolver's calls each complete and the caller keeps polling the
\* future resolve returned, so a traversal that can take a step takes one.
SpecWalk == Init /\ [][NextWalk]_vars /\ WF_vars(WalkStep)

\* ------------------------------------------------- vocabulary of the claims
Done == pc = "done"

NeverFails(rsv) == \A s \in Strings : rsv[s].tag # "Err"
AlwaysUnchanged(rsv) == \A s \in Strings : rsv[s] = Unchanged

\* The chains of n nested single-key mappings around a leaf string.
ChainsOf(n) == {Chain(n, String(s)) : s \in Strings}

\* The walker of format fmt entered at a given depth (resolve_recursive).
Rec(fmt, v, rsv, cfg, depth) ==
    IF fmt = "json" THEN json_resolve_recursive(v, rsv, cfg, depth, <<>>)
    ELSE impl_resolve_recursive(fmt, v, rsv, cfg, depth, <<>>)

\* What the caller sees of a result: the tree or the error, not the calls.
Outcome(r) == IF r.ok THEN <<"Ok", r.value>> ELSE <<"Err", r.error>>

\* ----------------------------------------------------------------- C1
\* C1: for each walker and every N >= 1, a chain of N nested single-key
\* mappings around a leaf string fails with DepthExceeded{limit: N-1} when
\* max_depth = N-1 and succeeds when max_depth >= N, the resolver never
\* failing.
C1_DepthEnforcement ==
    (Done /\ NeverFails(resolver)) =>
        \A n \in 1..MaxChain :
            value \in ChainsOf(n) =>
                /\ (config.max_depth = n - 1 =>
                        ~result.ok /\ result.error = DepthExceeded(n - 1))
                /\ (config.max_depth >= n => result.ok)

\* ----------------------------------------------------------------- C2
\* C2: in the YAML and TOML walkers a chain of N nested single-key
\* mappings around a leaf string, resolved with max_depth = N, fails with
\* DepthExceeded{limit: N} (the resolver not failing on a key before the
\* leaf is reached): the leaf, at depth N = max_depth, is rejected.
C2_MacroRejectsDepthEqualLimit ==
    (Done /\ walker \in {"yaml", "toml"}
          /\ (NeverFails(resolver) \/ ~config.resolve_keys)) =>
        \A n \in 1..MaxChain :
            (value \in ChainsOf(n) /\ config.max_depth = n) =>
                ~result.ok /\ result.error = DepthExceeded(n)

C2_Witness ==
    /\ Done
    /\ walker = "yaml"
    /\ value \in ChainsOf(2)
    /\ config.max_depth = 2
    /\ ~result.ok
    /\ result.error = DepthExceeded(2)

\* ----------------------------------------------------------------- C3
\* C3: with max_depth = 0 a root value that is a single string is not
\* rejected by the depth check in any walker: the resolver is invoked on it
\* once and the call succeeds when the resolver succeeds.
C3_RootStringAtDepthZero ==
    (Done /\ config.max_depth = 0 /\ value.kind = "String") =>
        /\ result.calls = <<value.s>>
        /\ (~result.ok => result.error.kind # "DepthExceeded")
        /\ (resolver[value.s].tag # "Err" => result.ok)

\* ----------------------------------------------------------------- C4
\* C4: on a tree built only from the kinds common to the three formats,
\* json::resolve, yaml::resolve and toml::resolve return the same outcome
\* (the same tree, or the same error with the same limit) after the same
\* sequence of resolver invocations, for every Config and resolver.
C4_WalkersAgree ==
    (Done /\ \A fmt \in Formats : IsValue(fmt, value)) =>
        /\ result = json_resolve(value, resolver, config)
        /\ result = yaml_resolve(value, resolver, config)
        /\ result = toml_resolve(value, resolver, config)

\* ------------------------------------------------ positions in a tree
\* A path leads from the root to a node through sequence indices, entries
\* (named by their key in the input) and tagged wrappers; each step is one
\* level of depth.  Keys are not positions.
Index(i) == [seg |-> "Index", i |-> i]
KeySeg(k) == [seg |-> "Key", key |-> k]
InnerSeg == [seg |-> "Inner"]
Missing == [kind |-> "Missing"]

HasKey(entries, k) == \E i \in 1..Len(entries) : entries[i].key = k
IndexOfKey(entries, k) == CHOOSE i \in 1..Len(entries) : entries[i].key = k
Lookup(entries, k) == entries[IndexOfKey(entries, k)].val

RECURSIVE Paths(_)
Paths(v) ==
    {<<>>} \cup
    CASE v.kind = "Array" ->
            UNION {{<<Index(i)>> \o q : q \in Paths(v.items[i])} : i \in 1..Len(v.items)}
      [] v.kind = "Object" ->
            UNION {{<<KeySeg(v.entries[i].key)>> \o q : q \in Paths(v.entries[i].val)}
                        : i \in 1..Len(v.entries)}
      [] v.kind = "Tagged" -> {<<InnerSeg>> \o q : q \in Paths(v.value)}
      [] OTHER -> {}

RECURSIVE At(_, _)
At(v, p) ==
    IF p = <<>> THEN v
    ELSE LET h == Head(p)
         IN  CASE h.seg = "Index" -> At(v.items[h.i], Tail(p))
               [] h.seg = "Key" -> At(Lookup(v.entries, h.key), Tail(p))
               [] h.seg = "Inner" -> At(v.value, Tail(p))

\* The string a successful resolver call on s leaves in the tree.
Apply(rsv, s) == IF rsv[s].tag = "Changed" THEN rsv[s].s ELSE s

\* The image of a key under the resolver, every string in it replaced (the
\* mappings inside the keys of the inputs hold one entry).
RECURSIVE Image(_, _)
Image(v, rsv) ==
    CASE v.kind = "String" -> String(Apply(rsv, v.s))
      [] v.kind = "Array" -> Array([i \in 1..Len(v.items) |-> Image(v.items[i], rsv)])
      [] v.kind = "Object" ->
            Object([i \in 1..Len(v.entries) |->
                        Entry(Image(v.entries[i].key, rsv), Image(v.entries[i].val, rsv))])
      [] v.kind = "Tagged" -> Tagged(v.tag, Image(v.value, rsv))
      [] OTHER -> v

\* The key under which the entry of input key k is inserted in the output.
ResolvedKey(k, rsv, cfg) == IF cfg.resolve_keys THEN Image(k, rsv) ELSE k

\* The node of the output tree at the position p of the input tree.
RECURSIVE OutAt(_, _, _, _)
OutAt(out, p, rsv, cfg) ==
    IF p = <<>> THEN out
    ELSE LET h == Head(p)
         IN  CASE h.seg = "Index" ->
                    IF out.kind = "Array" /\ h.i <= Len(out.items)
                    THEN OutAt(out.items[h.i], Tail(p), rsv, cfg)
                    ELSE Missing
               [] h.seg = "Key" ->
                    IF out.kind = "Object" /\ HasKey(out.entries, ResolvedKey(h.key, rsv, cfg))
                    THEN OutAt(Lookup(out.entries, ResolvedKey(h.key, rsv, cfg)),
                               Tail(p), rsv, cfg)
                    ELSE Missing
               [] h.seg = "Inner" ->
                    IF out.kind = "Tagged" THEN OutAt(out.value, Tail(p), rsv, cfg)
                    ELSE Missing

\* No entry on the way to p is followed, in its mapping, by an entry that
\* resolves to the same key.
RECURSIVE Survives(_, _, _, _)
Survives(v, p, rsv, cfg) ==
    IF p = <<>> THEN TRUE
    ELSE LET h == Head(p)
         IN  CASE h.seg = "Index" -> Survives(v.items[h.i], Tail(p), rsv, cfg)
               [] h.seg = "Key" ->
                    LET i == IndexOfKey(v.entries, h.key)
                    IN  /\ \A j \in (i + 1)..Len(v.entries) :
                                ResolvedKey(v.entries[j].key, rsv, cfg)
                                    # ResolvedKey(h.key, rsv, cfg)
                        /\ Survives(v.entries[i].val, Tail(p), rsv, cfg)
               [] h.seg = "Inner" -> Survives(v.value, Tail(p), rsv, cfg)

\* The strings of a tree in document order, those of the keys included
\* (each key before the value of its entry) when keys is TRUE.
RECURSIVE DocStrings(_, _)
RECURSIVE DocItems(_, _, _)
RECURSIVE DocEntries(_, _, _)
DocStrings(v, keys) ==
    CASE v.kind = "String" -> <<v.s>>
      [] v.kind = "Array" -> DocItems(v.items, 1, keys)
      [] v.kind = "Object" -> DocEntries(v.entries, 1, keys)
      [] v.kind = "Tagged" -> DocStrings(v.value, keys)
      [] OTHER -> <<>>
DocItems(items, i, keys) ==
    IF i > Len(items) THEN <<>>
    ELSE DocStrings(items[i], keys) \o DocItems(items, i + 1, keys)
DocEntries(entries, i, keys) ==
    IF i > Len(entries) THEN <<>>
    ELSE (IF keys THEN DocStrings(entries[i].key, keys) ELSE <<>>)
            \o DocStrings(entries[i].val, keys) \o DocEntries(entries, i + 1, keys)

SeqToBag(sq) ==
    [x \in {sq[i] : i \in DOMAIN sq} |-> Cardinality({i \in DOMAIN sq : sq[i] = x})]

KeysOf(entries) == [i \in 1..Len(entries) |-> entries[i].key]

RECURSIVE Height(_)
Max(S) == CHOOSE x \in S : \A y \in S : y <= x
Height(v) ==
    CASE v.kind = "Array" ->
            Max({0} \cup {1 + Height(v.items[i]) : i \in 1..Len(v.items)})
      [] v.kind = "Object" ->
            Max({0} \cup {1 + Height(v.entries[i].val) : i \in 1..Len(v.entries)})
      [] v.kind = "Tagged" -> 1 + Height(v.value)
      [] OTHER -> 0

\* ----------------------------------------------------------------- C5
\* The output node at the position of every string node s of the input is
\* the string the resolver's answer on s leaves: for every position when
\* all is FALSE, for the positions no later colliding entry overwrote when
\* all is TRUE.
StringsReplaced(surviving) ==
    \A p \in Paths(value) :
        (At(value, p).kind = "String" /\ (surviving => Survives(value, p, resolver, config)))
            => OutAt(result.value, p, resolver, config)
                    = String(Apply(resolver, At(value, p).s))

\* C5 (as stated): in a successful traversal every string node of the input
\* is passed to the resolver exactly once with its exact contents, and the
\* output node at the same position is the returned string on Changed and
\* the original string on Unchanged.
C5_EveryStringResolvedInPlace ==
    (Done /\ result.ok) =>
        /\ SeqToBag(result.calls) = SeqToBag(DocStrings(value, config.resolve_keys))
        /\ StringsReplaced(FALSE)

\* C5 (amended): as stated, except that the output node is only promised
\* where no later entry of an enclosing mapping resolves to the same key as
\* the entry on the way to the node (always so with resolve_keys = false).
C5_EveryStringResolvedUnlessOverwritten ==
    (Done /\ result.ok) =>
        /\ SeqToBag(result.calls) = SeqToBag(DocStrings(value, config.resolve_keys))
        /\ StringsReplaced(TRUE)

C5_Witness ==
    /\ Done
    /\ result.ok
    /\ value = Array(<<String("a"), String("b")>>)
    /\ resolver["a"] = Changed("b")
    /\ resolver["b"] = Unchanged
    /\ result.value = Array(<<String("b"), String("b")>>)
    /\ result.calls = <<"a", "b">>

\* ----------------------------------------------------------------- C6
\* C6: with a resolver that always answers Unchanged, every traversal that
\* stays within the depth limit returns a tree equal to the input, with
\* resolve_keys false or true; nothing but the depth limit makes it fail,
\* and in the JSON walker a tree no higher than max_depth is within it.
C6_StructurePreserved ==
    (Done /\ AlwaysUnchanged(resolver)) =>
        /\ result.ok => result.value = value
        /\ ~result.ok => result.error = DepthExceeded(config.max_depth)
        /\ (walker = "json" /\ Height(value) <= config.max_depth) => result.ok

C6_Witness ==
    /\ Done
    /\ AlwaysUnchanged(resolver)
    /\ config.resolve_keys
    /\ value.kind = "Object"
    /\ Len(value.entries) = 2
    /\ \E i \in 1..2 : value.entries[i].val.kind \notin {"String", "Array", "Object"}
    /\ result.ok
    /\ result.value = value

\* ----------------------------------------------------------------- C7
\* C7: for every sequence node of a successful traversal the output
\* sequence has the length of the input and its i-th element is the result
\* of resolving the i-th input element at depth + 1; it stands in the
\* output at the position of the input sequence.
C7_SequenceOrder ==
    (Done /\ result.ok) =>
        \A p \in Paths(value) :
            At(value, p).kind = "Array" =>
                LET arr == At(value, p).items
                    r == Rec(walker, At(value, p), resolver, config, Len(p))
                IN  /\ r.ok
                    /\ r.value.kind = "Array"
                    /\ Len(r.value.items) = Len(arr)
                    /\ \A i \in 1..Len(arr) :
                            Outcome(Rec(walker, arr[i], resolver, config, Len(p) + 1))
                                = <<"Ok", r.value.items[i]>>
                    /\ Survives(value, p, resolver, config) =>
                            OutAt(result.value, p, resolver, config) = r.value

C7_Witness ==
    /\ Done
    /\ result.ok
    /\ value = Array(<<String("a"), String("b")>>)
    /\ resolver["a"] = Changed("b")
    /\ resolver["b"] = Changed("a")
    /\ result.value = Array(<<String("b"), String("a")>>)

\* ----------------------------------------------------------------- C8
\* C8: with resolve_keys = false no key is passed to the resolver (every
\* call is the call of a string node, whether or not the traversal
\* succeeds) and the keys of every output mapping are those of the input
\* mapping, whatever the resolver would answer on them.
C8_KeysOffNeverResolved ==
    (Done /\ ~config.resolve_keys) =>
        /\ SeqToBag(result.calls) \sqsubseteq SeqToBag(DocStrings(value, FALSE))
        /\ result.ok =>
            \A p \in Paths(value) :
                At(value, p).kind = "Object" =>
                    LET out == OutAt(result.value, p, resolver, config)
                    IN  /\ out.kind = "Object"
                        /\ KeysOf(out.entries) = KeysOf(At(value, p).entries)

C8_Witness ==
    /\ Done
    /\ ~config.resolve_keys
    /\ value = Object(<<Entry(String("a"), String("a"))>>)
    /\ resolver["a"] = Changed("b")
    /\ result.ok
    /\ result.value = Object(<<Entry(String("a"), String("b"))>>)
    /\ result.calls = <<"a">>

\* ----------------------------------------------------------------- C9
\* Every String key k of every mapping (of every mapping no later colliding
\* entry overwrote, when surviving is TRUE) is in the output under the
\* string the resolver's answer on k leaves, and maps to the resolved value
\* of its entry.
KeysReplaced(surviving) ==
    \A p \in Paths(value) :
        At(value, p).kind = "Object" =>
            \A i \in 1..Len(At(value, p).entries) :
                LET e == At(value, p).entries[i]
                    q == p \o <<KeySeg(e.key)>>
                    out == OutAt(result.value, p, resolver, config)
                    new_key == String(Apply(resolver, e.key.s))
                IN  (e.key.kind = "String"
                        /\ (surviving => Survives(value, q, resolver, config))) =>
                    /\ out.kind = "Object"
                    /\ HasKey(out.entries, new_key)
                    /\ <<"Ok", Lookup(out.entries, new_key)>>
                            = Outcome(Rec(walker, e.val, resolver, config, Len(q)))

\* C9 (as stated): with resolve_keys = true every string key of every
\* mapping is passed to the resolver; the output entry's key is the
\* returned string on Changed and the original key on Unchanged, and it
\* maps to the resolved value of that entry.
C9_KeysOnResolved ==
    (Done /\ result.ok /\ config.resolve_keys) =>
        /\ SeqToBag(result.calls) = SeqToBag(DocStrings(value, TRUE))
        /\ KeysReplaced(FALSE)

\* C9 (amended): as stated, except that the output key maps to the
\* resolved value of the entry only where no later entry of the mapping
\* (or of an enclosing one) resolves to the same key; where one does, the
\* later entry's value is the one kept.
C9_KeysOnResolvedUnlessOverwritten ==
    (Done /\ result.ok /\ config.resolve_keys) =>
        /\ SeqToBag(result.calls) = SeqToBag(DocStrings(value, TRUE))
        /\ KeysReplaced(TRUE)

C9_Witness ==
    /\ Done
    /\ config.resolve_keys
    /\ value = Object(<<Entry(String("a"), String("b"))>>)
    /\ resolver["a"] = Changed("b")
    /\ resolver["b"] = Unchanged
    /\ result.ok
    /\ result.value = Object(<<Entry(String("b"), String("b"))>>)
    /\ result.calls = <<"a", "b">>

\* ----------------------------------------------------------------- C10
\* C10 (as stated): in every successful traversal every output mapping has
\* exactly as many entries as the input mapping, also when the resolver
\* maps two keys of one mapping to the same string.
C10_MappingLengthPreserved ==
    (Done /\ result.ok) =>
        \A p \in Paths(value) :
            At(value, p).kind = "Object" =>
                LET r == Rec(walker, At(value, p), resolver, config, Len(p))
                IN  r.ok /\ Len(r.value.entries) = Len(At(value, p).entries)

\* C10 (amended): every output mapping has one entry for each distinct
\* resolved key of the input mapping: as many entries as the input when
\* resolve_keys = false or the resolved keys are pairwise distinct, fewer
\* when two keys resolve to the same key.
C10_MappingLengthIsDistinctKeys ==
    (Done /\ result.ok) =>
        \A p \in Paths(value) :
            At(value, p).kind = "Object" =>
                LET m == At(value, p).entries
                    r == Rec(walker, At(value, p), resolver, config, Len(p))
                    keys == {ResolvedKey(m[i].key, resolver, config) : i \in 1..Len(m)}
                IN  /\ r.ok
                    /\ Len(r.value.entries) = Cardinality(keys)
                    /\ {r.value.entries[i].key : i \in 1..Len(r.value.entries)} = keys
                    /\ ~config.resolve_keys => Len(r.value.entries) = Len(m)

C10_Witness ==
    /\ Done
    /\ config.resolve_keys
    /\ value = Object(<<Entry(String("a"), Number(1)), Entry(String("b"), String("b"))>>)
    /\ resolver["a"] = Changed("b")
    /\ resolver["b"] = Unchanged
    /\ result.ok
    /\ result.value = Object(<<Entry(String("b"), String("b"))>>)

\* ----------------------------------------------------------------- C11
\* The kinds of the scalars that are no strings.
NonStrings == {"Null", "Bool", "Number", "Datetime"}

\* Every scalar of the input that is no string (every one no later
\* colliding entry overwrote, when surviving is TRUE) is the output node at
\* its position.
NonStringsKept(surviving) ==
    \A p \in Paths(value) :
        (At(value, p).kind \in NonStrings
            /\ (surviving => Survives(value, p, resolver, config)))
            => OutAt(result.value, p, resolver, config) = At(value, p)

\* C11 (as stated): the resolver is never invoked on a null, boolean,
\* number or datetime node (its calls are calls of strings of the tree,
\* each at most once), and every such node of a traversal that stays within
\* the depth limit is in the output unchanged at the same position,
\* whatever the resolver returns.
C11_NonStringPassthrough ==
    Done =>
        /\ SeqToBag(result.calls) \sqsubseteq SeqToBag(DocStrings(value, config.resolve_keys))
        /\ result.ok => NonStringsKept(FALSE)

\* C11 (amended): as stated, except that the node is only promised where no
\* later entry of an enclosing mapping resolves to the same key as the
\* entry on the way to it (always so with resolve_keys = false).
C11_NonStringPassthroughUnlessOverwritten ==
    Done =>
        /\ SeqToBag(result.calls) \sqsubseteq SeqToBag(DocStrings(value, config.resolve_keys))
        /\ result.ok => NonStringsKept(TRUE)

C11_Witness ==
    /\ Done
    /\ walker = "toml"
    /\ value = Array(<<Datetime("d1"), String("a")>>)
    /\ resolver["a"] = Changed("b")
    /\ result.ok
    /\ result.value = Array(<<Datetime("d1"), String("b")>>)
    /\ result.calls = <<"a">>

\* ----------------------------------------------------------------- C12
\* The strings of the tree the traversal is to resolve: the string nodes
\* and, with resolve_keys = true, the strings of the keys.
StringsOf(v, cfg) ==
    LET doc == DocStrings(v, cfg.resolve_keys) IN {doc[i] : i \in DOMAIN doc}

\* C12: when a resolver call of the traversal fails with e, the call is the
\* last one made and resolve returns Err(Resolver(e)), no tree, however
\* many strings there are before or after it; and when the resolver fails
\* on some string of the tree, the traversal returns no tree, and returns
\* the Resolver error of one of those strings unless the depth limit is met
\* (never met by these trees under the default or unlimited max_depth).
C12_ErrorShortCircuit ==
    Done =>
        /\ \A i \in DOMAIN result.calls :
                resolver[result.calls[i]].tag = "Err" =>
                    /\ i = Len(result.calls)
                    /\ ~result.ok
                    /\ result.error = ResolverError(resolver[result.calls[i]].e)
        /\ LET failing == {s \in StringsOf(value, config) : resolver[s].tag = "Err"}
           IN  failing # {} =>
                    /\ ~result.ok
                    /\ result.error.kind = "Resolver" =>
                            result.error.e \in {resolver[s].e : s \in failing}
                    /\ config.max_depth >= DefaultMaxDepth =>
                            result.error.kind = "Resolver"

C12_Witness ==
    /\ Done
    /\ value = Array(<<String("b"), String("a")>>)
    /\ resolver["a"] = Changed("b")
    /\ resolver["b"] = Failed(ErrorOf("b"))
    /\ ~result.ok
    /\ result.error = ResolverError(ErrorOf("b"))
    /\ result.calls = <<"b">>

\* ----------------------------------------------------------------- C13
\* C13: a call that fails returns DepthExceeded with limit = max_depth of
\* the Config of the call, or Resolver(e) with e the error value the
\* resolver returned on the last string it was called with; a call that
\* does not fail returns a tree of the walker's value type.
C13_TwoErrorKinds ==
    Done =>
        IF result.ok THEN IsValue(walker, result.value)
        ELSE \/ result.error = [kind |-> "DepthExceeded", limit |-> config.max_depth]
             \/ /\ result.calls # <<>>
                /\ resolver[result.calls[Len(result.calls)]].tag = "Err"
                /\ result.error
                     = [kind |-> "Resolver",
                        e |-> resolver[result.calls[Len(result.calls)]].e]

C13_Witness ==
    /\ Done
    /\ walker = "json"
    /\ config.max_depth = 1
    /\ value = Array(<<Array(<<String("b")>>)>>)
    /\ resolver["b"] = Failed(ErrorOf("b"))
    /\ ~result.ok
    /\ result.error = [kind |-> "DepthExceeded", limit |-> 1]
    /\ result.calls = <<>>

\* ----------------------------------------------------------------- C14
\* A resolver idempotent on strings: the string a successful call leaves is
\* one it does not fail on and leaves as it is.
Idempotent(rsv) ==
    \A s \in Strings :
        rsv[s].tag # "Err" =>
            /\ rsv[Apply(rsv, s)].tag # "Err"
            /\ Apply(rsv, Apply(rsv, s)) = Apply(rsv, s)

\* C14: for a resolver idempotent on strings and any Config, the walker
\* applied to the output of a successful traversal succeeds and returns a
\* tree equal to that output.
C14_RoundTripIdempotence ==
    (Done /\ result.ok /\ Idempotent(resolver)) =>
        LET again == Rec(walker, result.value, resolver, config, 0)
        IN  /\ again.ok
            /\ again.value = result.value

C14_Witness ==
    /\ Done
    /\ walker = "yaml"
    /\ config.resolve_keys
    /\ resolver["a"] = Changed("b")
    /\ resolver["b"] = Unchanged
    /\ value = Object(<<Entry(String("a"), Array(<<String("a")>>))>>)
    /\ result.ok
    /\ result.value = Object(<<Entry(String("b"), Array(<<String("b")>>))>>)
    /\ yaml_resolve(result.value, resolver, config).ok
    /\ yaml_resolve(result.value, resolver, config).value = result.value

\* ----------------------------------------------------------------- C15
\* The last of the recorded steps whose operation is one of ops, 0 if none.
LastStep(ops) ==
    Max({0} \cup {i \in 1..Len(steps) : steps[i].op \in ops})

\* C15: Config::new() has max_depth = 32 and resolve_keys = false; after
\* any chain of builder steps max_depth is the argument of the last
\* max_depth step, or usize::MAX if unlimited_depth came after it, or the
\* default if neither was applied, and resolve_keys is the argument of the
\* last resolve_keys step, or the default: each step sets its own field and
\* leaves the other, in any order of chaining.
C15_ConfigBuilder ==
    pc = "build" =>
        LET d == LastStep({"max_depth", "unlimited_depth"})
            k == LastStep({"resolve_keys"})
        IN  /\ config.max_depth =
                    IF d = 0 THEN 32
                    ELSE IF steps[d].op = "unlimited_depth" THEN UsizeMax
                    ELSE steps[d].arg
            /\ config.resolve_keys = IF k = 0 THEN FALSE ELSE steps[k].arg

C15_Witness ==
    /\ steps = <<Step("resolve_keys", TRUE), Step("unlimited_depth", "none"),
                 Step("max_depth", 2)>>
    /\ config = [max_depth |-> 2, resolve_keys |-> TRUE]

\* ----------------------------------------------------------------- C16
\* C16: resolve_struct runs to_value, then the JSON walker, then
\* from_value, and reports the first stage that fails: Serialize(e) when
\* to_value fails with e, no later stage run and the resolver never called;
\* Resolve(err) with err the JSON walker's error on the serialized tree,
\* from_value not run; Deserialize(e) when from_value fails with e on the
\* resolved tree; and otherwise the value from_value returns.
C16_ResolveStructStages ==
    (Done /\ walker = "struct") =>
        LET json == to_value(value)
            walked == json_resolve(json.value, resolver, config)
            out == from_value(value.type, walked.value)
        IN  IF ~json.ok
            THEN /\ ~result.ok
                 /\ result.error = [kind |-> "Serialize", e |-> json.error]
                 /\ result.stages = <<"to_value">>
                 /\ result.calls = <<>>
            ELSE IF ~walked.ok
            THEN /\ ~result.ok
                 /\ result.error = [kind |-> "Resolve", err |-> walked.error]
                 /\ result.stages = <<"to_value", "resolve">>
                 /\ result.calls = walked.calls
            ELSE IF ~out.ok
            THEN /\ ~result.ok
                 /\ result.error = [kind |-> "Deserialize", e |-> out.error]
                 /\ result.stages = <<"to_value", "resolve", "from_value">>
            ELSE /\ result.ok
                 /\ result.value = out.value
                 /\ result.stages = <<"to_value", "resolve", "from_value">>

C16_Witness ==
    /\ Done
    /\ walker = "struct"
    /\ value = TestStruct("a", 1)
    /\ config.resolve_keys
    /\ resolver["a"] = Unchanged
    /\ resolver["b"] = Changed("a")
    /\ ~result.ok
    /\ result.error = [kind |-> "Deserialize", e |-> "missing field b"]
    /\ result.calls = <<"a", "a", "b">>

\* ----------------------------------------------------------------- C17
IsPrefix(a, b) == Len(a) <= Len(b) /\ \A i \in 1..Len(a) : a[i] = b[i]

\* C17: the resolver calls of one traversal are one sequence, each call
\* returned before the next is made (resolve_str is awaited where it is
\* called), in document order: the calls made are the first calls of the
\* document order of the strings (sequence elements left to right, entries
\* first to last, an earlier child entirely before a later one, a key before
\* the value of its entry), all of them when the traversal succeeds.
C17_CallsInDocumentOrder ==
    (Done /\ walker \in Formats) =>
        /\ IsPrefix(result.calls, DocStrings(value, config.resolve_keys))
        /\ result.ok => result.calls = DocStrings(value, config.resolve_keys)

C17_Witness ==
    /\ Done
    /\ walker = "toml"
    /\ config.resolve_keys
    /\ value = Object(<<Entry(String("b"), Array(<<String("a")>>))>>)
    /\ NeverFails(resolver)
    /\ result.ok
    /\ result.calls = <<"b", "a">>

\* ----------------------------------------------------------------- C18
\* The visits of a traversal in visitation order: every node on entry, and
\* every key string passed to the resolver directly (JSON, TOML).  A visit
\* holds its depth, whether the depth check is made on it, and the string
\* passed to the resolver there, if any.
Visit(depth, checked, str) == [depth |-> depth, checked |-> checked, str |-> str]

RECURSIVE Visits(_, _, _, _)
RECURSIVE VisitItems(_, _, _, _, _)
RECURSIVE VisitEntries(_, _, _, _, _)
Visits(fmt, v, cfg, depth) ==
    <<Visit(depth, TRUE, IF v.kind = "String" THEN <<v.s>> ELSE <<>>)>> \o
    CASE v.kind = "Array" -> VisitItems(fmt, v.items, 1, cfg, depth)
      [] v.kind = "Object" -> VisitEntries(fmt, v.entries, 1, cfg, depth)
      [] v.kind = "Tagged" -> Visits(fmt, v.value, cfg, depth + 1)
      [] OTHER -> <<>>
VisitItems(fmt, items, i, cfg, depth) ==
    IF i > Len(items) THEN <<>>
    ELSE Visits(fmt, items[i], cfg, depth + 1) \o VisitItems(fmt, items, i + 1, cfg, depth)
VisitEntries(fmt, entries, i, cfg, depth) ==
    IF i > Len(entries) THEN <<>>
    ELSE (IF ~cfg.resolve_keys THEN <<>>
          ELSE IF fmt = "yaml" THEN Visits(fmt, entries[i].key, cfg, depth + 1)
          ELSE <<Visit(depth, FALSE, <<entries[i].key.s>>)>>)
            \o Visits(fmt, entries[i].val, cfg, depth + 1)
            \o VisitEntries(fmt, entries, i + 1, cfg, depth)

\* The depth check of the walker rejects the visit.
TooDeep(fmt, vis, cfg) ==
    /\ vis.checked
    /\ IF fmt = "json" THEN vis.depth > cfg.max_depth ELSE vis.depth >= cfg.max_depth

\* The resolver fails on the string of the visit.
FailsAt(vis, rsv) == vis.str # <<>> /\ rsv[vis.str[1]].tag = "Err"

\* The strings of the first n visits, in order.
RECURSIVE CallsOf(_, _)
CallsOf(visits, n) ==
    IF n = 0 THEN <<>> ELSE CallsOf(visits, n - 1) \o visits[n].str

\* C18: a traversal fails exactly when some visit is an error (the depth
\* check rejects the node, or the resolver fails on its string); the error
\* returned is that of the first such visit in visitation order, and the
\* resolver calls made are those of the visits before it, plus the failing
\* call itself when the resolver failed: none is made after the error.
C18_ShortCircuitInVisitationOrder ==
    (Done /\ walker \in Formats) =>
        LET visits == Visits(walker, value, config, 0)
            errors == {i \in 1..Len(visits) :
                            TooDeep(walker, visits[i], config) \/ FailsAt(visits[i], resolver)}
        IN  IF errors = {}
            THEN result.ok /\ result.calls = CallsOf(visits, Len(visits))
            ELSE LET first == CHOOSE i \in errors : \A j \in errors : i <= j
                 IN  /\ ~result.ok
                     /\ IF TooDeep(walker, visits[first], config)
                        THEN /\ result.error = DepthExceeded(config.max_depth)
                             /\ result.calls = CallsOf(visits, first - 1)
                        ELSE /\ result.error
                                  = ResolverError(resolver[visits[first].str[1]].e)
                             /\ result.calls = CallsOf(visits, first)

C18_Witness ==
    /\ Done
    /\ walker = "json"
    /\ config.max_depth = 0
    /\ value = Array(<<Array(<<>>), String("b")>>)
    /\ resolver["b"] = Failed(ErrorOf("b"))
    /\ ~result.ok
    /\ result.error = DepthExceeded(0)
    /\ result.calls = <<>>

\* ----------------------------------------------------------------- C19
\* C19: in YAML, resolving a tagged node at depth d (d within the limit)
\* returns what resolving its inner value at depth d + 1 returns, wrapped
\* again in the same tag when it is a value and as it is when it is a
\* failure; the resolver calls are those of the inner value; and the tagged
\* node of the output stands at the position of the input's.
C19_YamlTagged ==
    (Done /\ walker = "yaml") =>
        \A p \in Paths(value) :
            At(value, p).kind = "Tagged" =>
                LET t == At(value, p)
                    d == Len(p)
                    r == Rec("yaml", t, resolver, config, d)
                    inner == Rec("yaml", t.value, resolver, config, d + 1)
                IN  /\ ~(d >= config.max_depth) =>
                            IF inner.ok
                            THEN /\ r.ok
                                 /\ r.value = [kind |-> "Tagged", tag |-> t.tag,
                                               value |-> inner.value]
                                 /\ r.calls = inner.calls
                            ELSE r = inner
                    /\ (result.ok /\ Survives(value, p, resolver, config)) =>
                            /\ r.ok
                            /\ OutAt(result.value, p, resolver, config) = r.value

C19_Witness ==
    /\ Done
    /\ walker = "yaml"
    /\ value = Array(<<Tagged("!mytag", String("a"))>>)
    /\ resolver["a"] = Changed("b")
    /\ result.ok
    /\ result.value = Array(<<Tagged("!mytag", String("b"))>>)
    /\ result.calls = <<"a">>

\* ----------------------------------------------------------------- C20
\* C20: with resolve_keys = true, for the first entry of every mapping
\* entered at a depth d within the limit:
\*   YAML - the key is resolved as a tree at depth d + 1 by the walker
\*     itself: its calls come first and are the strings of the key in
\*     document order, its result is the key with every string in it
\*     replaced, a scalar key that is no string is kept and makes no call,
\*     a failure in the key (the depth check at d + 1 before any call, or
\*     the resolver) is the failure of the mapping;
\*   JSON, TOML - the key string is passed to the resolver first and
\*     whatever d + 1 is, and a failure of that call is the failure of the
\*     mapping.
\* The entry is in the output under the resolved key.
C20_KeyResolution ==
    (Done /\ walker \in Formats /\ config.resolve_keys) =>
        \A p \in Paths(value) :
            LET node == At(value, p)
                d == Len(p)
            IN  (node.kind = "Object" /\ node.entries # <<>>
                    /\ ~TooDeep(walker, Visit(d, TRUE, <<>>), config)) =>
                LET key == node.entries[1].key
                    r == Rec(walker, node, resolver, config, d)
                IN  IF walker = "yaml"
                    THEN LET kr == Rec("yaml", key, resolver, config, d + 1)
                         IN  /\ IsPrefix(kr.calls, r.calls)
                             /\ ~kr.ok => r = kr
                             /\ kr.ok =>
                                    /\ kr.calls = DocStrings(key, TRUE)
                                    /\ kr.value = Image(key, resolver)
                             /\ (key.kind \in NonStrings /\ kr.ok) =>
                                    kr.value = key /\ kr.calls = <<>>
                             /\ d + 1 >= config.max_depth =>
                                    r = Err(DepthExceeded(config.max_depth), <<>>)
                             /\ r.ok => HasEntry(r.value.entries, kr.value)
                    ELSE /\ r.calls # <<>>
                         /\ r.calls[1] = key.s
                         /\ resolver[key.s].tag = "Err" =>
                                r = Err(ResolverError(resolver[key.s].e), <<key.s>>)
                         /\ r.ok =>
                                HasEntry(r.value.entries, String(Apply(resolver, key.s)))

C20_Witness ==
    /\ Done
    /\ walker = "yaml"
    /\ config.resolve_keys
    /\ value = Object(<<Entry(Array(<<String("a")>>), String("a"))>>)
    /\ resolver["a"] = Changed("b")
    /\ resolver["b"] = Unchanged
    /\ result.ok
    /\ result.value = Object(<<Entry(Array(<<String("b")>>), String("b"))>>)
    /\ result.calls = <<"a", "a">>

\* ----------------------------------------------------------------- C21
\* C21: the depth check comes first on entry to a node: a node of any kind
\* entered at a depth beyond max_depth returns DepthExceeded at once,
\* without a resolver call; so a traversal of a tree with such a node
\* returns no tree, whether or not the tree holds a string, returns
\* DepthExceeded unless the resolver failed before the node was reached,
\* and passes to the resolver no string that stands at or after the first
\* such node in visitation order.
C21_DepthCheckOnEntry ==
    (Done /\ walker \in Formats) =>
        LET visits == Visits(walker, value, config, 0)
            deep == {i \in 1..Len(visits) :
                        visits[i].checked /\ visits[i].depth > config.max_depth}
        IN  /\ \A p \in Paths(value) :
                    Len(p) > config.max_depth =>
                        Rec(walker, At(value, p), resolver, config, Len(p))
                            = Err(DepthExceeded(config.max_depth), <<>>)
            /\ deep # {} =>
                    LET first == CHOOSE i \in deep : \A j \in deep : i <= j
                    IN  /\ ~result.ok
                        /\ NeverFails(resolver) =>
                                result.error = DepthExceeded(config.max_depth)
                        /\ IsPrefix(result.calls, CallsOf(visits, first - 1))

C21_Witness ==
    /\ Done
    /\ walker = "json"
    /\ config.max_depth = 0
    /\ value = Array(<<Null, Number(1)>>)
    /\ ~result.ok
    /\ result.error = DepthExceeded(0)
    /\ result.calls = <<>>

\* ----------------------------------------------------------------- C22
\* The height of a tree, a key counted as a child of its mapping (YAML
\* enters a key as it enters a value, one level below the mapping).
RECURSIVE TreeHeight(_)
TreeHeight(v) ==
    CASE v.kind = "Array" ->
            Max({0} \cup {1 + TreeHeight(v.items[i]) : i \in 1..Len(v.items)})
      [] v.kind = "Object" ->
            Max({0} \cup {1 + TreeHeight(v.entries[i].val) : i \in 1..Len(v.entries)}
                    \cup {1 + TreeHeight(v.entries[i].key) : i \in 1..Len(v.entries)})
      [] v.kind = "Tagged" -> 1 + TreeHeight(v.value)
      [] OTHER -> 0

Walking == pc = "walk"

\* At every step of a traversal: no position has been entered twice, the
\* resolver has been called at most once per string of the tree (those of
\* the keys counted only when resolve_keys is true), every pending
\* activation has a depth of at most the height of the tree, so that its
\* depth + 1 is a usize, and a traversal that has returned has returned
\* what resolve_recursive returns: a tree or an error.
WalkBounded ==
    (walker \in Formats /\ (Walking \/ Done)) =>
        /\ \A i, j \in 1..Len(entered) : entered[i] = entered[j] => i = j
        /\ Len(issued) <= Len(DocStrings(value, config.resolve_keys))
        /\ \A k \in 1..Len(stack) :
                /\ stack[k].depth <= TreeHeight(value)
                /\ stack[k].depth + 1 <= UsizeMax
                /\ stack[k].depth = Len(stack[k].pos)
        /\ Done =>
                /\ stack = <<>>
                /\ result = Rec(walker, value, resolver, config, 0)
                /\ result.calls = issued

\* C22: a traversal of a finite tree terminates with a tree or an error
\* under every Config, unlimited_depth included, having entered each node at
\* most once, with at most one resolver call per string node and (when
\* resolve_keys is true) per string in a key, and with a depth counter that
\* never exceeds the height of the tree, so that depth + 1 does not overflow.
C22_Termination ==
    /\ []WalkBounded
    /\ Walking ~> Done

C22_Witness ==
    /\ Done
    /\ walker = "yaml"
    /\ config = [max_depth |-> UsizeMax, resolve_keys |-> TRUE]
    /\ value = Object(<<Entry(Array(<<String("a")>>), String("a"))>>)
    /\ resolver["a"] = Unchanged
    /\ result.ok
    /\ Len(entered) = 4
    /\ issued = <<"a", "a">>

====
